---- MODULE Spec2Model ----
(***************************************************************************)
(* Model of classes.py: the household finance simulator.                   *)
(*                                                                         *)
(* Numbers.  Python floats are modelled by rationals <<n, d>> in lowest    *)
(* terms.  An arithmetic result is kept exactly while its numerator and    *)
(* denominator fit MaxMant; otherwise it is rounded (half-even) to nine    *)
(* significant decimal digits, the way the double rounds to 53 bits.  The  *)
(* one place where the 53-bit rounding of the double decides control flow  *)
(* (the month index computed from years_from_start) is modelled bit-exactly*)
(* by current_month below.                                                 *)
(***************************************************************************)
EXTENDS Integers, Sequences, FiniteSets, TLC

\* ------------------------------------------------------------------------
\* Integer helpers
\* ------------------------------------------------------------------------
MaxMant == 1073741823

Abs(a) == IF a < 0 THEN -a ELSE a

Max2(a, b) == IF a >= b THEN a ELSE b

Min2(a, b) == IF a <= b THEN a ELSE b

RECURSIVE GCD(_, _)
GCD(a, b) == IF b = 0 THEN a ELSE GCD(b, a % b)

\* |a * b| <= MaxMant, decided without forming the product
Fits(a, b) == a = 0 \/ b = 0 \/ Abs(b) <= MaxMant \div Abs(a)

RECURSIVE Pow10(_)
Pow10(j) == IF j = 0 THEN 1 ELSE 10 * Pow10(j - 1)

\* number of decimal digits of m >= 0 (0 for m = 0)
RECURSIVE Dig(_)
Dig(m) == IF m = 0 THEN 0 ELSE 1 + Dig(m \div 10)

\* a * b = q * c + r, 0 <= r < c, for a, b >= 0 and 0 < c <= MaxMant + 1,
\* computed digit by digit so that no intermediate exceeds 31 bits
\* <<q, r>> + <<qa, ra>> with the remainder kept below c
AddQR(h, qa, ra, c) ==
    IF h[2] >= c - ra THEN <<h[1] + qa + 1, h[2] - (c - ra)>>
    ELSE <<h[1] + qa, h[2] + ra>>

\* 2 * h + bit * a
StepQR(h, bit, a, c) ==
    IF bit = 1 THEN AddQR(AddQR(h, h[1], h[2], c), a \div c, a % c, c)
    ELSE AddQR(h, h[1], h[2], c)

\* 16 * h + d * a for a hexadecimal digit d (h is evaluated first)
Step16(h, d, a, c) ==
    IF h[1] < 0 THEN h
    ELSE StepQR(StepQR(StepQR(StepQR(h, d \div 8, a, c),
                              (d \div 4) % 2, a, c),
                       (d \div 2) % 2, a, c),
                d % 2, a, c)

RECURSIVE MulDivQR(_, _, _)
MulDivQR(a, b, c) ==
    IF b = 0 THEN <<0, 0>>
    ELSE Step16(MulDivQR(a, b \div 16, c), b % 16, a, c)

\* round-half-even of a * b / c
RoundQR(h, c) ==
    IF h[2] > c - h[2] \/ (h[2] = c - h[2] /\ h[1] % 2 = 1)
    THEN h[1] + 1 ELSE h[1]

MulDivRound(a, b, c) == RoundQR(MulDivQR(a, b, c), c)

\* ------------------------------------------------------------------------
\* Rationals in lowest terms with positive denominator
\* ------------------------------------------------------------------------
NormG(n, d, g) ==
    IF d < 0 THEN <<-(n \div g), -(d \div g)>> ELSE <<n \div g, d \div g>>

Norm(n, d) == NormG(n, d, GCD(Abs(n), Abs(d)))

Num(n) == <<n, 1>>

Zero == <<0, 1>>

One == <<1, 1>>

Neg(x) == <<-x[1], x[2]>>

IsZero(x) == x[1] = 0

IsNeg(x) == x[1] < 0

Floor(x) == x[1] \div x[2]

\* int(): truncation toward zero
Trunc(x) == IF x[1] >= 0 THEN x[1] \div x[2] ELSE -((-x[1]) \div x[2])

\* exact comparison (continued-fraction descent, no products)
RECURSIVE Le(_, _)
Le(x, y) ==
    LET fx == Floor(x)
        fy == Floor(y)
        rx == x[1] - fx * x[2]
        ry == y[1] - fy * y[2]
    IN  IF fx # fy THEN fx < fy
        ELSE IF rx = 0 THEN TRUE
        ELSE IF ry = 0 THEN FALSE
        ELSE Le(<<y[2], ry>>, <<x[2], rx>>)

Lt(x, y) == ~Le(y, x)

\* nine-digit decimal form <<sign, m, e>> of x: x ~ sign * m / 10^e, 0 <= e <= 9
ToDecM(s, m, e) ==
    IF m = Pow10(9) THEN <<s, Pow10(8), e - 1>> ELSE <<s, m, e>>

ToDecE(x, e) ==
    ToDecM(IF x[1] < 0 THEN -1 ELSE 1, MulDivRound(Abs(x[1]), Pow10(e), x[2]), e)

ToDec(x) == ToDecE(x, 9 - Dig(Abs(x[1]) \div x[2]))

\* sign * m / 10^e as a rational, bringing e back into 0..9
FromDec(s, m, e) ==
    IF e > 9 THEN Norm(s * MulDivRound(m, 1, Pow10(Min2(e - 9, 9))), Pow10(9))
    ELSE IF e < 0 THEN Norm(s * m * Pow10(-e), 1)
    ELSE Norm(s * m, Pow10(e))

\* The arithmetic operators pass intermediate values as operator arguments:
\* TLC evaluates an argument once per call.

\* p * q on nine-digit decimals, keeping nine digits of the product
MulDecJ(p, q, j) ==
    FromDec(p[1] * q[1], MulDivRound(p[2], q[2], Pow10(j)), p[3] + q[3] - j)

MulDecJ0(p, q, j0) ==
    MulDecJ(p, q, IF j0 > 0 /\ MulDivQR(p[2], q[2], Pow10(j0))[1] < Pow10(8)
                  THEN j0 - 1 ELSE j0)

MulDec(p, q) == MulDecJ0(p, q, Max2(0, Dig(p[2]) + Dig(q[2]) - 9))

\* (a / c) * (b / d) with a/d and b/c already reduced
MulFrac(a, b, c, d, x, y) ==
    IF Fits(a, b) /\ Fits(c, d) THEN <<a * b, c * d>>
    ELSE MulDec(ToDec(x), ToDec(y))

MulG(x, y, g1, g2) ==
    MulFrac(x[1] \div g1, y[1] \div g2, x[2] \div g2, y[2] \div g1, x, y)

\* (the leading test makes TLC evaluate both operands before descending)
Mul(x, y) ==
    IF x[2] < 1 \/ y[2] < 1 THEN Zero
    ELSE MulG(x, y, GCD(Abs(x[1]), y[2]), GCD(Abs(y[1]), x[2]))

\* p / q on nine-digit decimals, p scaled up to nine digits by 10^s
DivDecJ(p, q, s, j) ==
    FromDec(p[1] * q[1], MulDivRound(p[2] * Pow10(s), Pow10(j), q[2]),
            p[3] + s + j - q[3])

DivDecJ0(p, q, s, j0) ==
    DivDecJ(p, q, s,
            IF MulDivQR(p[2] * Pow10(s), Pow10(j0), q[2])[1] < Pow10(8)
            THEN j0 + 1 ELSE j0)

DivDec(p, q) ==
    IF p[2] = 0 THEN Zero ELSE DivDecJ0(p, q, 9 - Dig(p[2]), Dig(q[2]) - 1)

Recip(y) == IF y[1] < 0 THEN <<-y[2], -y[1]>> ELSE <<y[2], y[1]>>

DivFrac(a, b, c, d, x, y) ==
    IF Fits(a, b) /\ Fits(c, d) THEN <<a * b, c * d>>
    ELSE DivDec(ToDec(x), ToDec(y))

DivG(x, y, inv, g1, g2) ==
    DivFrac(x[1] \div g1, inv[1] \div g2, x[2] \div g2, inv[2] \div g1, x, y)

DivR(x, y, inv) ==
    DivG(x, y, inv, GCD(Abs(x[1]), inv[2]), GCD(Abs(inv[1]), x[2]))

\* x / y for y # 0
Div(x, y) == IF x[2] < 1 \/ y[2] < 1 THEN Zero ELSE DivR(x, y, Recip(y))

\* the decimal <<s, m, f>> brought to exponent e
Shift(p, e) ==
    p[1] * (IF e >= p[3] THEN p[2] * Pow10(e - p[3])
            ELSE MulDivRound(p[2], 1, Pow10(p[3] - e)))

AddDecS(s, e) == FromDec(IF s < 0 THEN -1 ELSE 1, Abs(s), e)

AddDecE(p, q, e) == AddDecS(Shift(p, e) + Shift(q, e), e)

AddDecE0(p, q, e0) ==
    AddDecE(p, q, IF Abs(Shift(p, e0) + Shift(q, e0)) >= Pow10(9)
                  THEN e0 - 1 ELSE e0)

AddDec(p, q) ==
    AddDecE0(p, q, Min2(Max2(p[3], q[3]),
                        9 - Max2(Dig(p[2]) - p[3], Dig(q[2]) - q[3])))

AddFrac(x, y, a, b) ==
    IF Fits(x[1], a) /\ Fits(y[1], b) /\ Fits(x[2], a)
       /\ Abs(x[1] * a + y[1] * b) <= MaxMant
    THEN Norm(x[1] * a + y[1] * b, x[2] * a)
    ELSE AddDec(ToDec(x), ToDec(y))

AddG(x, y, g) == AddFrac(x, y, y[2] \div g, x[2] \div g)

Add(x, y) ==
    IF x[2] < 1 \/ y[2] < 1 THEN Zero ELSE AddG(x, y, GCD(x[2], y[2]))

Sub(x, y) == Add(x, Neg(y))

\* x ** k for an integer k >= 0
RECURSIVE Pow(_, _)
Pow(x, k) ==
    IF x[2] < 1 THEN Zero
    ELSE IF k = 0 THEN One
    ELSE IF k % 2 = 0 THEN Pow(Mul(x, x), k \div 2)
    ELSE Mul(x, Pow(Mul(x, x), k \div 2))

\* round(x, 2): nearest cent, ties to even
Round2(x) ==
    Norm((IF x[1] < 0 THEN -1 ELSE 1)
            * ((Abs(x[1]) \div x[2]) * 100
               + MulDivRound(Abs(x[1]) % x[2], 100, x[2])),
         100)

\* ------------------------------------------------------------------------
\* Python values
\* ------------------------------------------------------------------------
\* None in a numeric slot: a pair with denominator 0
None == <<0, 0>>

IsNone(x) == x[2] = 0

\* result of a call: the object after it, the value returned, the exception
Result(o, r, e) == [obj |-> o, ret |-> r, err |-> e]

\* ------------------------------------------------------------------------
\* class Investment
\* ------------------------------------------------------------------------
\* Investment.__init__
Investment(annual_growth_rate, tax_free) ==
    [growth_rate |-> Add(One, Div(annual_growth_rate, Num(12))),
     tax_free    |-> tax_free,
     total       |-> Zero,
     df          |-> <<>>,
     cost_basis  |-> None,
     stock_cost  |-> One,
     nstocks     |-> Zero]

\* one row of Investment.df
Row(self, years_from_start, change_type) ==
    [nstocks          |-> self.nstocks,
     stock_cost       |-> self.stock_cost,
     total            |-> self.total,
     years_from_start |-> years_from_start,
     change_type      |-> change_type]

\* self.total = self.nstocks * self.stock_cost
SetTotal(self) == [self EXCEPT !.total = Mul(self.nstocks, self.stock_cost)]

\* self.df = pd.concat([self.df, new_row])
AppendRow(self, years_from_start, change_type) ==
    [self EXCEPT !.df = Append(self.df, Row(self, years_from_start, change_type))]

\* variant: the new purchase is averaged in without share weights
_update_cost_basis_unweighted(self, stocks_purchased) ==
    IF IsNone(self.cost_basis) THEN Result(self.stock_cost, None, "none")
    ELSE IF IsZero(Add(self.nstocks, stocks_purchased))
         THEN Result(self.cost_basis, None, "ZeroDivisionError")
    ELSE Result(Div(Add(self.cost_basis, self.stock_cost), Num(2)), None, "none")

\* Investment._update_cost_basis: the new cost basis, or the exception
_update_cost_basis(self, stocks_purchased) ==
    IF IsNone(self.cost_basis) THEN Result(self.stock_cost, None, "none")
    ELSE IF IsZero(Add(self.nstocks, stocks_purchased))
         THEN Result(self.cost_basis, None, "ZeroDivisionError")
    ELSE Result(Div(Add(Mul(self.cost_basis, self.nstocks),
                        Mul(self.stock_cost, stocks_purchased)),
                    Add(self.nstocks, stocks_purchased)),
                None, "none")

\* Investment.add after _update_cost_basis returned cb
add_stocks(self, stocks_purchased, cb, years_from_start) ==
    IF cb.err # "none" THEN Result(self, None, cb.err)
    ELSE Result(AppendRow(SetTotal([self EXCEPT
                                       !.cost_basis = cb.obj,
                                       !.nstocks = Add(self.nstocks, stocks_purchased)]),
                          years_from_start, "add"),
                None, "none")

add_purchase(self, stocks_purchased, years_from_start) ==
    add_stocks(self, stocks_purchased, _update_cost_basis(self, stocks_purchased),
               years_from_start)

\* Investment.add
add(self, amount, years_from_start) ==
    add_purchase(self, Div(amount, self.stock_cost), years_from_start)

\* the rows of df whose change_type is "grow"
GrowRows(self) == SelectSeq(self.df, LAMBDA r : r.change_type = "grow")

\* the body of the if in Investment.grow
grow_apply(self, years_from_start) ==
    AppendRow(SetTotal([self EXCEPT
                           !.stock_cost = Mul(self.stock_cost, self.growth_rate)]),
              years_from_start, "grow")

\* variant: the guard admits a period that already has a grow row
grow_same_period_again(self, years_from_start) ==
    IF \A i \in 1..Len(self.df) :
          self.df[i].change_type = "grow"
             => Le(self.df[i].years_from_start, years_from_start)
    THEN Result(grow_apply(self, years_from_start), None, "none")
    ELSE Result(self, None, "none")

\* Investment.grow: max() of no rows is NaN, and NaN < t is false; the
\* maximum of the grow times is below t exactly when every grow time is
grow(self, years_from_start) ==
    IF \A i \in 1..Len(self.df) :
          self.df[i].change_type = "grow"
             => Lt(self.df[i].years_from_start, years_from_start)
    THEN Result(grow_apply(self, years_from_start), None, "none")
    ELSE Result(self, None, "none")

\* (1 - tax_rate) * self.stock_cost + tax_rate * self.cost_basis
NetPerStock(self, tax_rate) ==
    Add(Mul(Sub(One, tax_rate), self.stock_cost), Mul(tax_rate, self.cost_basis))

\* variant: a tax-free account is taxed like any other
TaxRate_taxed(self, gains_rate) == gains_rate

\* tax_rate as withdraw_accounting_for_taxes and test_sufficient_funds set it
TaxRate(self, gains_rate) == IF self.tax_free THEN Zero ELSE gains_rate

\* Investment.withdraw_accounting_for_taxes from stocks_to_sell on
withdraw_stocks(self, stocks_to_sell, years_from_start) ==
    Result(AppendRow(SetTotal([self EXCEPT
                                  !.nstocks = Sub(self.nstocks, stocks_to_sell)]),
                     years_from_start, "withdraw"),
           IF self.tax_free THEN Zero
           ELSE Mul(stocks_to_sell, Sub(self.stock_cost, self.cost_basis)),
           "none")

withdraw_net(self, amount, net, years_from_start) ==
    IF IsZero(net) THEN Result(self, None, "ZeroDivisionError")
    ELSE withdraw_stocks(self, Div(amount, net), years_from_start)

\* Investment.withdraw_accounting_for_taxes; tax_rate * None is a TypeError
withdraw_accounting_for_taxes(self, amount, years_from_start, gains_rate) ==
    IF IsNone(self.cost_basis) THEN Result(self, None, "TypeError")
    ELSE withdraw_net(self, amount, NetPerStock(self, TaxRate(self, gains_rate)),
                      years_from_start)

\* variant: the amount is compared with the value held before tax
test_sufficient_funds_pre_tax(self, amount, gains_rate) ==
    IF IsNone(self.cost_basis) THEN FALSE
    ELSE Le(amount, Mul(self.nstocks, self.stock_cost))

\* variant: any ledger that has had a contribution is found sufficient
test_sufficient_funds_any(self, amount, gains_rate) == ~IsNone(self.cost_basis)

\* Investment.test_sufficient_funds
test_sufficient_funds(self, amount, gains_rate) ==
    IF IsNone(self.cost_basis) THEN FALSE
    ELSE Le(amount, Mul(self.nstocks, NetPerStock(self, TaxRate(self, gains_rate))))

\* default of the gains_rate parameter
DefaultGainsRate == <<3, 20>>

\* ------------------------------------------------------------------------
\* dict objects: functions over the keys present, summed in key order
\* ------------------------------------------------------------------------
EmptyDict == <<>>

DictSet(d, key, v) == [x \in (DOMAIN d) \cup {key} |-> IF x = key THEN v ELSE d[x]]

\* sum(d.values()) over the keys 1..i
RECURSIVE SumValuesTo(_, _)
SumValuesTo(d, i) ==
    IF i = 0 THEN Zero
    ELSE IF i \in DOMAIN d THEN Add(SumValuesTo(d, i - 1), d[i])
    ELSE SumValuesTo(d, i - 1)

MonthsPerYear == 12

SumValues(d) == SumValuesTo(d, MonthsPerYear)

\* ------------------------------------------------------------------------
\* The month index int((years_from_start % 1) * 12) + 1 of the k-th call,
\* years_from_start being the double k / 12
\* ------------------------------------------------------------------------
\* number of binary digits of n >= 0
RECURSIVE BitLen(_)
BitLen(n) == IF n = 0 THEN 0 ELSE 1 + BitLen(n \div 2)

\* width of the significand of a double
MantBits == 53

\* position of the leading binary digit of k / 3 (k / 12 has the same
\* significand): BitLen of the integer part, 0 for 2/3, -1 for 1/3
LeadBit(k) == IF k >= 3 THEN BitLen(k \div 3) ELSE k - 2

\* k / 12 is rounded below its value: k / 3 = n + f / 3 with f = 1 (binary
\* fraction 0101...) or f = 2 (1010...), cut after MantBits - LeadBit(k)
\* fraction digits, leaves less than half a unit in the last place
RoundsDown(k) == (k % 3) # 0 /\ (MantBits - LeadBit(k) + (k % 3)) % 2 = 1

\* exponent of the spacing of doubles just below j, against that of k / 12:
\* when the quotient was rounded down by u, (k/12) % 1 * 12 is j - 12u
\* rounded, which stays below j exactly when LeadBit(k) exceeds this
SpacingBelow(j) ==
    BitLen(j) - 1 - (IF j \in {1, 2, 4, 8} THEN 1 ELSE 0)

current_month(k) ==
    IF (k % MonthsPerYear) # 0 /\ RoundsDown(k)
       /\ LeadBit(k) > SpacingBelow(k % MonthsPerYear)
    THEN k % MonthsPerYear
    ELSE (k % MonthsPerYear) + 1

\* years_from_start of the k-th call as a number
Years(k) == Div(Num(k), Num(MonthsPerYear))

\* ------------------------------------------------------------------------
\* class SpendingStrategy, class GenerosityStrategy
\* ------------------------------------------------------------------------
SpendingStrategy(base_spending, retirement_saving, disp_spend, disp_give) ==
    [base_spending       |-> base_spending,
     retirement_saving   |-> retirement_saving,
     disposible_spending |-> Sub(Sub(One, base_spending), retirement_saving),
     disp_spend          |-> disp_spend,
     disp_give           |-> disp_give,
     disp_invest         |-> Sub(Sub(One, disp_spend), disp_give)]

\* <<base_spending, retirement_saving, disp_spend, disp_invest, disp_give>>
base_retirement_spend_invest_give(self, paycheck) ==
    <<Mul(paycheck, self.base_spending),
      Mul(paycheck, self.retirement_saving),
      Mul(Mul(paycheck, self.disposible_spending), self.disp_spend),
      Mul(Mul(paycheck, self.disposible_spending), self.disp_invest),
      Mul(Mul(paycheck, self.disposible_spending), self.disp_give)>>

GenerosityStrategy(straight_percent, investment_draw_down_rate, legacy_give_percent) ==
    [straight_percent          |-> straight_percent,
     investment_percent        |-> Sub(One, straight_percent),
     investment_draw_down_rate |-> Div(investment_draw_down_rate, Num(12)),
     legacy_give_percent       |-> legacy_give_percent]

\* <<spend_give, invest_give>>
straight_invest(self, paycheck) ==
    <<Mul(paycheck, self.straight_percent), Mul(paycheck, self.investment_percent)>>

\* ------------------------------------------------------------------------
\* class InflationAdjuster (self is the inflation rate)
\* ------------------------------------------------------------------------
\* 1.04 ** (1 / 12) to nine digits: the only base raised to a fractional
\* power (forward_adjust of the manager's adjuster at years_from_start)
Root12(b) == CASE b = <<26, 25>> -> <<50163687, 50000000>>

\* b ** y for y >= 0 a whole number or a number of twelfths
PowYears(b, y) ==
    IF y[2] = 1 THEN Pow(b, y[1])
    ELSE Mul(Pow(b, Floor(y)),
             Pow(Root12(b), Trunc(Mul(Sub(y, Num(Floor(y))), Num(12)))))

reverse_adjust(self, amount, years) ==
    Mul(amount, PowYears(Sub(One, self), years))

forward_adjust(self, amount, years) ==
    Mul(amount, PowYears(Add(One, self), years))

\* ------------------------------------------------------------------------
\* class TaxCalculator
\* ------------------------------------------------------------------------
tax_brackets ==
    <<<<Num(22001), Num(89450), <<3, 25>>>>,
      <<Num(89451), Num(190750), <<11, 50>>>>,
      <<Num(190751), Num(364200), <<6, 25>>>>,
      <<Num(364201), Num(462500), <<8, 25>>>>,
      <<Num(462501), Num(693750), <<7, 20>>>>,
      <<Num(693751), Num(9999999), <<37, 100>>>>>>

StandardDeduction == 29200

TaxCalculator == [year_to_date |-> EmptyDict,
                  projected_inflation_adjusted_income |-> EmptyDict]

reset_year(self) ==
    [self EXCEPT !.year_to_date = EmptyDict,
                 !.projected_inflation_adjusted_income = EmptyDict]

\* the second statement of add_inflation_adjusted_income
project_income(self, current_month_) ==
    [self EXCEPT !.projected_inflation_adjusted_income =
        DictSet(@, current_month_,
                Sub(Div(SumValues(self.year_to_date),
                        Div(Num(current_month_), Num(12))),
                    Num(StandardDeduction)))]

add_inflation_adjusted_income(self, ia_income, current_month_) ==
    project_income([self EXCEPT !.year_to_date = DictSet(@, current_month_, ia_income)],
                   current_month_)

\* variant: the upper bound of a bracket is exclusive
RECURSIVE BracketRate_exclusive(_, _)
BracketRate_exclusive(p, i) ==
    IF i > Len(tax_brackets) THEN None
    ELSE IF Le(tax_brackets[i][1], p) /\ Lt(p, tax_brackets[i][2])
         THEN tax_brackets[i][3]
    ELSE BracketRate_exclusive(p, i + 1)

\* the rate of the first bracket from the i-th on that holds p; None if none
RECURSIVE BracketRate(_, _)
BracketRate(p, i) ==
    IF i > Len(tax_brackets) THEN None
    ELSE IF Le(tax_brackets[i][1], p) /\ Le(p, tax_brackets[i][2])
         THEN tax_brackets[i][3]
    ELSE BracketRate(p, i + 1)

\* variant: an income in no bracket is taxed at rate 0
get_tax_rate_or_zero(self, current_month_) ==
    IF IsNone(BracketRate(self.projected_inflation_adjusted_income[current_month_], 1))
    THEN Zero
    ELSE BracketRate(self.projected_inflation_adjusted_income[current_month_], 1)

\* TaxCalculator.get_tax_rate: the rate, or None where the code raises
\* ValueError
get_tax_rate(self, current_month_) ==
    BracketRate(self.projected_inflation_adjusted_income[current_month_], 1)

\* variant: the taxes paid during the year are not credited
get_tax_return_uncredited(self, total_taxes_paid) ==
    Neg(Mul(self.projected_inflation_adjusted_income[12], get_tax_rate(self, 12)))

\* TaxCalculator.get_tax_return (its get_tax_rate has succeeded on the same
\* projection when _get_paid reaches it)
get_tax_return(self, total_taxes_paid) ==
    Sub(total_taxes_paid,
        Mul(self.projected_inflation_adjusted_income[12], get_tax_rate(self, 12)))

\* ------------------------------------------------------------------------
\* class SpendingTracker, class Salary, class Asset
\* ------------------------------------------------------------------------
SpendingTracker == [total |-> Zero, df |-> <<>>]

SpendingTracker_row(self, amount, years_from_start) ==
    [self EXCEPT !.df = Append(@, [spending |-> amount, total |-> self.total,
                                   years_from_start |-> years_from_start])]

SpendingTracker_add(self, amount, years_from_start) ==
    SpendingTracker_row([self EXCEPT !.total = Add(@, amount)], amount, years_from_start)

\* Salary.get_paid, Salary.get_raise (self is the salary)
Salary_get_paid(self) == Div(self, Num(12))

Salary_get_raise(self, multiplier) == Mul(self, multiplier)

\* an argument the call does not pass
Missing == <<-1, 0>>

vacancy_rate == <<833, 10000>>

insurance == <<7, 2000>>

taxes == <<73, 10000>>

maintenance == <<1, 100>>

\* Asset.__init__: a call without years_from_start is a TypeError, and so
\* is (1 - vacancy_rate) * None
Asset(value, growth_rate, years_from_start, dividend_rate) ==
    IF years_from_start = Missing \/ IsNone(dividend_rate)
    THEN Result(None, None, "TypeError")
    ELSE Result([value |-> value,
                 growth_rate |-> growth_rate,
                 dividend_rate |-> dividend_rate,
                 profit_dividend_rate |->
                     Sub(Mul(Sub(One, vacancy_rate), dividend_rate),
                         Div(Add(Add(insurance, taxes), maintenance), Num(12))),
                 df |-> <<[value |-> value, years_from_start |-> years_from_start]>>],
                None, "none")

\* self.df["years_from_start"].max() over the first i rows
RECURSIVE MaxYearsTo(_, _)
MaxYearsTo(df, i) ==
    IF i = 1 THEN df[1].years_from_start
    ELSE IF Le(MaxYearsTo(df, i - 1), df[i].years_from_start)
         THEN df[i].years_from_start
    ELSE MaxYearsTo(df, i - 1)

most_recent_growth(self) == MaxYearsTo(self.df, Len(self.df))

\* the body of the if in Asset.grow
Asset_grow_apply(self, new_value, years_from_start) ==
    [self EXCEPT !.df = Append(@, [value |-> new_value,
                                   years_from_start |-> years_from_start]),
                 !.value = new_value]

\* variant: the guard does not wait for a full year
Asset_grow_every_call(self, years_from_start) ==
    IF Le(most_recent_growth(self), years_from_start)
    THEN Asset_grow_apply(self, Round2(Mul(self.value, Add(One, self.growth_rate))),
                          years_from_start)
    ELSE self

\* Asset.grow
Asset_grow(self, years_from_start) ==
    IF Le(Add(most_recent_growth(self), One), years_from_start)
    THEN Asset_grow_apply(self, Round2(Mul(self.value, Add(One, self.growth_rate))),
                          years_from_start)
    ELSE self

\* Asset.pay_dividend
pay_dividend(self) ==
    IF IsNone(self.dividend_rate) THEN Result(self, None, "ValueError")
    ELSE Result(self, Round2(Mul(self.profit_dividend_rate, self.value)), "none")

\* sum([asset.pay_dividend() for asset in assets[1..i]])
RECURSIVE SumDividends(_, _)
SumDividends(assets, i) ==
    IF i = 0 THEN Zero
    ELSE Add(SumDividends(assets, i - 1), pay_dividend(assets[i]).ret)

\* ------------------------------------------------------------------------
\* class PortfolioManager
\* ------------------------------------------------------------------------
\* The manager is a record of its attributes and of three fields that
\* describe the simulate_month call in progress: err, the exception raised
\* ("none" if none); events, the calls made so far; locals, its local values.
InflationRate == <<1, 25>>

InvestmentGrowthRate == <<12, 125>>

AssetBasePrice == 150000

AssetGrowthRate == <<9, 250>>

AssetDividendRate == <<1, 100>>

RaiseMultiplier == <<21, 20>>

NoLocals ==
    [current_month |-> 0, projection |-> None, income |-> None,
     n_assets |-> 0, asset_price |-> None]

\* one row of PortfolioManager.df
SummaryRow(salary, income, retirement, giving, savings, years_from_start, given) ==
    [salary |-> salary, total_income |-> income,
     retirement_savings |-> retirement, giving_savings |-> giving,
     asset_savings |-> savings, years_from_start |-> years_from_start,
     total_giving |-> given]

\* PortfolioManager.__init__ (salary is the Salary's amount)
PortfolioManager(spendstrat, genstrat, salary) ==
    [spendstrat            |-> spendstrat,
     genstrat              |-> genstrat,
     salary                |-> salary,
     ia                    |-> InflationRate,
     tax_cal               |-> TaxCalculator,
     taxes_ytd_ia          |-> EmptyDict,
     income_ytd            |-> EmptyDict,
     retirement_investment |-> Investment(InvestmentGrowthRate, TRUE),
     giving_investment     |-> Investment(InvestmentGrowthRate, FALSE),
     giving_tracker        |-> SpendingTracker,
     assets                |-> <<>>,
     asset_savings         |-> Investment(InvestmentGrowthRate, FALSE),
     df                    |-> <<SummaryRow(salary, salary, Zero, Zero, Zero, Zero, Zero)>>,
     err                   |-> "none",
     events                |-> <<>>,
     locals                |-> NoLocals]

Raise(self, e) == [self EXCEPT !.err = e]

Event(self, e) == [self EXCEPT !.events = Append(@, e)]

\* the call e on the ledger self[name] had the outcome r
Ledger(self, name, r, e) ==
    IF r.err # "none" THEN Raise(self, r.err)
    ELSE Event([self EXCEPT ![name] = r.obj], e)

\* PortfolioManager._get_tax_return
_get_tax_return(self) == get_tax_return(self.tax_cal, SumValues(self.taxes_ytd_ia))

\* _get_paid, its last two statements
get_paid_net(self, total_income, ia_income, current_month_, tax_rate) ==
    [self EXCEPT !.income_ytd = DictSet(@, current_month_, ia_income),
                 !.locals.income = Mul(total_income, Sub(One, tax_rate))]

\* _get_paid from the test for the 12th month on
get_paid_return(self, total_income, ia_income, current_month_, tax_rate) ==
    IF current_month_ = 12
    THEN get_paid_net(Event(self, "get_tax_return"),
                      Add(total_income, _get_tax_return(self)),
                      ia_income, current_month_, tax_rate)
    ELSE get_paid_net(self, total_income, ia_income, current_month_, tax_rate)

\* variant: a failed lookup takes the month's income out of the maps again
get_paid_taxed_undone(self, total_income, ia_income, current_month_, tax_rate) ==
    IF IsNone(tax_rate)
    THEN Raise([self EXCEPT
                   !.tax_cal.year_to_date =
                       [x \in (DOMAIN @) \ {current_month_} |-> @[x]],
                   !.tax_cal.projected_inflation_adjusted_income =
                       [x \in (DOMAIN @) \ {current_month_} |-> @[x]]],
               "ValueError")
    ELSE get_paid_return(
             Event([self EXCEPT !.taxes_ytd_ia =
                                    DictSet(@, current_month_, Mul(ia_income, tax_rate))],
                   "get_tax_rate"),
             total_income, ia_income, current_month_, tax_rate)

\* _get_paid once get_tax_rate has returned tax_rate or raised (None)
get_paid_taxed(self, total_income, ia_income, current_month_, tax_rate) ==
    IF IsNone(tax_rate) THEN Raise(self, "ValueError")
    ELSE get_paid_return(
             Event([self EXCEPT !.taxes_ytd_ia =
                                    DictSet(@, current_month_, Mul(ia_income, tax_rate))],
                   "get_tax_rate"),
             total_income, ia_income, current_month_, tax_rate)

\* _get_paid after add_inflation_adjusted_income
get_paid_rate(self, total_income, ia_income, current_month_) ==
    get_paid_taxed(
        [self EXCEPT !.locals.projection =
                         self.tax_cal.projected_inflation_adjusted_income[current_month_]],
        total_income, ia_income, current_month_,
        get_tax_rate(self.tax_cal, current_month_))

\* _get_paid from ia_income and current_month on
get_paid_ia(self, total_income, ia_income, current_month_) ==
    get_paid_rate(
        Event([self EXCEPT !.tax_cal =
                               add_inflation_adjusted_income(@, ia_income, current_month_),
                           !.locals.current_month = current_month_],
              "add_inflation_adjusted_income"),
        total_income, ia_income, current_month_)

\* _get_paid from total_income on; n_years = int(years_from_start) = k \div 12
get_paid_total(self, k, total_income) ==
    get_paid_ia(self, total_income,
                Round2(reverse_adjust(self.ia, total_income, Num(k \div MonthsPerYear))),
                current_month(k))

\* PortfolioManager._get_paid in the k-th call; it returns locals.income
_get_paid(self, k) ==
    get_paid_total(self, k,
                   Add(Round2(Salary_get_paid(self.salary)),
                       SumDividends(self.assets, Len(self.assets))))

\* one round of the loop of _purchase_assets, Asset(...) having the outcome r
purchase_one(self, r) ==
    IF r.err # "none" THEN Raise(self, r.err)
    ELSE Raise(Event([self EXCEPT !.assets = Append(@, r.obj)], "assets.append"),
               "ValueError")

\* the loop of _purchase_assets from round i on
RECURSIVE purchase_loop(_, _, _, _)
purchase_loop(self, i, n_assets, asset_price) ==
    IF self.err # "none" \/ i >= n_assets THEN self
    ELSE purchase_loop(
             purchase_one(self, Asset(asset_price, AssetGrowthRate, Missing,
                                      AssetDividendRate)),
             i + 1, n_assets, asset_price)

\* PortfolioManager._purchase_assets
_purchase_assets(self, n_assets, asset_price) ==
    purchase_loop(self, 0, n_assets, asset_price)

\* _manage_income from "if n_assets == 0" on
manage_purchase(self, disp_invest, asset_price, t, n_assets) ==
    IF self.err # "none" THEN self
    ELSE IF n_assets = 0
         THEN Ledger(self, "asset_savings", add(self.asset_savings, disp_invest, t),
                     "asset_savings.add")
    ELSE _purchase_assets([self EXCEPT !.locals.n_assets = n_assets],
                          n_assets, asset_price)

\* _manage_income from the test of the asset savings on
manage_savings(self, disp_invest, asset_price, t, n_assets) ==
    IF test_sufficient_funds(self.asset_savings, Sub(asset_price, disp_invest),
                             DefaultGainsRate)
    THEN manage_purchase(
             Ledger(self, "asset_savings",
                    withdraw_accounting_for_taxes(self.asset_savings,
                                                  Sub(asset_price, disp_invest), t,
                                                  DefaultGainsRate),
                    "asset_savings.withdraw"),
             disp_invest, asset_price, t, n_assets + 1)
    ELSE manage_purchase(self, disp_invest, asset_price, t, n_assets)

\* _manage_income with n_assets = int(disp_invest / asset_price), or 0
manage_units(self, disp_invest, asset_price, t, n_assets) ==
    manage_savings([self EXCEPT !.locals.asset_price = asset_price],
                   Sub(disp_invest, Mul(Num(n_assets), asset_price)),
                   asset_price, t, n_assets)

\* _manage_income from "determine n assets to purchase" on
manage_assets(self, disp_invest, asset_price, t) ==
    IF self.err # "none" THEN self
    ELSE manage_units(self, disp_invest, asset_price, t,
                      IF Le(asset_price, disp_invest)
                      THEN Trunc(Div(disp_invest, asset_price)) ELSE 0)

\* _manage_income, "handle investing"
manage_retirement(self, alloc, t) ==
    IF self.err # "none" THEN self
    ELSE manage_assets(
             Ledger(self, "retirement_investment",
                    add(self.retirement_investment, alloc[2], t),
                    "retirement_investment.add"),
             alloc[4], forward_adjust(self.ia, Num(AssetBasePrice), t), t)

\* _manage_income, the two giving_tracker.add calls
manage_tracker(self, alloc, give, withdrawal, t) ==
    IF self.err # "none" THEN self
    ELSE manage_retirement(
             Event([self EXCEPT !.giving_tracker =
                        SpendingTracker_add(SpendingTracker_add(@, give[1], t),
                                            withdrawal, t)],
                   "giving_tracker.add"),
             alloc, t)

\* _manage_income, giving_investment.add
manage_giving_add(self, alloc, give, withdrawal, t) ==
    IF self.err # "none" THEN self
    ELSE manage_tracker(
             Ledger(self, "giving_investment",
                    add(self.giving_investment, give[2], t),
                    "giving_investment.add"),
             alloc, give, withdrawal, t)

\* _manage_income, giving_investment.withdraw_accounting_for_taxes
manage_giving(self, alloc, give, withdrawal, t) ==
    manage_giving_add(
        Ledger(self, "giving_investment",
               withdraw_accounting_for_taxes(self.giving_investment, withdrawal, t,
                                             DefaultGainsRate),
               "giving_investment.withdraw"),
        alloc, give, withdrawal, t)

\* _manage_income after the allocation alloc
manage_alloc(self, alloc, t) ==
    manage_giving(Event(self, "allocate"), alloc,
                  straight_invest(self.genstrat, alloc[5]),
                  Mul(self.giving_investment.total,
                      self.genstrat.investment_draw_down_rate),
                  t)

\* PortfolioManager._manage_income
_manage_income(self, income, years_from_start) ==
    manage_alloc(self, base_retirement_spend_invest_give(self.spendstrat, income),
                 years_from_start)

\* _grow_investments_and_assets, the yearly loop: the name assets is unbound
grow_assets(self, current_month_) ==
    IF current_month_ = 12 /\ Len(self.assets) > 0 THEN Raise(self, "NameError")
    ELSE self

\* PortfolioManager._grow_investments_and_assets
_grow_investments_and_assets(self, years_from_start, current_month_) ==
    grow_assets(
        Event([self EXCEPT
                  !.retirement_investment = grow(@, years_from_start).obj,
                  !.giving_investment = grow(@, years_from_start).obj,
                  !.asset_savings = grow(@, years_from_start).obj],
              "grow"),
        current_month_)

\* PortfolioManager._close_out_year
_close_out_year(self) ==
    Event([Event([self EXCEPT !.tax_cal = reset_year(@),
                              !.taxes_ytd_ia = EmptyDict],
                 "reset_year")
             EXCEPT !.salary = Salary_get_raise(@, RaiseMultiplier)],
          "get_raise")

\* PortfolioManager._update_df
_update_df(self, years_from_start) ==
    Event([self EXCEPT !.df =
              Append(@, SummaryRow(self.salary, SumValues(self.income_ytd),
                                   self.retirement_investment.total,
                                   self.giving_investment.total,
                                   self.asset_savings.total,
                                   years_from_start,
                                   self.giving_tracker.total))],
          "_update_df")

\* PortfolioManager.init_retirement_savings
init_retirement_savings(self, amount) ==
    [Ledger(self, "retirement_investment",
            add(self.retirement_investment, amount, Zero),
            "init_retirement_savings")
       EXCEPT !.df[1].retirement_savings = amount]

\* PortfolioManager.init_giving_savings
init_giving_savings(self, amount) ==
    [Ledger(self, "giving_investment",
            add(self.giving_investment, amount, Zero),
            "init_giving_savings")
       EXCEPT !.df[1].giving_savings = amount]

\* simulate_month, "close out year"
month_close(self, k) ==
    IF self.err # "none" \/ current_month(k) # 12 THEN self
    ELSE _update_df(_close_out_year(self), Years(k))

\* simulate_month, "grow investments"
month_grow(self, k) ==
    IF self.err # "none" THEN self
    ELSE _grow_investments_and_assets(self, Years(k), current_month(k))

\* simulate_month, "manage income"
month_manage(self, k) ==
    IF self.err # "none" THEN self
    ELSE _manage_income(self, self.locals.income, Years(k))

\* PortfolioManager.simulate_month, the k-th call of a run
\* (years_from_start = k / 12)
simulate_month(self, k) ==
    month_close(
        month_grow(
            month_manage(
                _get_paid([self EXCEPT !.events = <<>>, !.locals = NoLocals], k),
                k),
            k),
        k)

\* ------------------------------------------------------------------------
\* State
\* ------------------------------------------------------------------------
VARIABLES
    inv,     \* a stand-alone Investment ledger driven call by call
    hist,    \* the calls made on inv: arguments, ledger before/after, outcome
    pm,      \* a PortfolioManager
    calls,   \* the number of simulate_month calls made on pm
    log,     \* one entry per simulate_month call made on pm
    adj,     \* an InflationAdjuster, an amount and its adjustments
    asset,   \* the outcome of constructing a stand-alone Asset
    ahist,   \* the calls made on asset
    tc,      \* a stand-alone TaxCalculator
    tlog     \* the calls made on tc

invVars == <<inv, hist>>

pmVars == <<pm, calls, log>>

assetVars == <<asset, ahist>>

tcVars == <<tc, tlog>>

vars == <<inv, hist, pm, calls, log, adj, asset, ahist, tc, tlog>>

\* the household of the end-to-end scenario
SpendStratA == SpendingStrategy(<<1, 2>>, <<3, 20>>, <<2, 5>>, <<1, 5>>)

\* a household that invests most of its income
SpendStratB == SpendingStrategy(<<1, 10>>, <<1, 10>>, <<1, 10>>, <<1, 10>>)

GenStrat == GenerosityStrategy(<<7, 10>>, <<1, 20>>, Zero)

\* a household that draws its whole giving fund down over a year
GenStratDraw == GenerosityStrategy(<<1, 2>>, One, Zero)

\* the values of the parts of the state a specification does not use
IdleInv == inv = Investment(InvestmentGrowthRate, FALSE) /\ hist = <<>>

IdlePm ==
    /\ pm = PortfolioManager(SpendStratA, GenStrat, Num(120000))
    /\ calls = 0
    /\ log = <<>>

IdleAdj == adj = [rate |-> InflationRate, amount |-> One, years |-> 0,
                  forward |-> None, back |-> None]

IdleAsset ==
    /\ asset = Asset(Num(AssetBasePrice), AssetGrowthRate, Zero, AssetDividendRate)
    /\ ahist = <<>>

IdleTc == tc = TaxCalculator /\ tlog = <<>>

\* ------------------------------------------------------------------------
\* A single Investment under arbitrary calls
\* ------------------------------------------------------------------------
MaxOps == 3

MaxT == 1

AnnualGrowthRates == {Num(6), Num(12)}

AddAmounts == {Zero, One, Num(3)}

WithdrawAmounts == {One, Num(2)}

Times == {Num(t) : t \in 0..MaxT}

Call(op, amount, t, before, r) ==
    [op |-> op, amount |-> amount, t |-> t, before |-> before,
     after |-> r.obj, ret |-> r.ret, err |-> r.err]

InitInv ==
    /\ inv \in {Investment(r, f) : r \in AnnualGrowthRates, f \in BOOLEAN}
    /\ hist = <<>>
    /\ IdlePm
    /\ IdleAdj
    /\ IdleAsset
    /\ IdleTc

Call_add ==
    \E amount \in AddAmounts, t \in {Num(MaxT)} :
        \E r \in {add(inv, amount, t)} :
            /\ Len(hist) < MaxOps
            /\ inv' = r.obj
            /\ hist' = Append(hist, Call("add", amount, t, inv, r))
            /\ UNCHANGED <<pmVars, adj, assetVars, tcVars>>

Call_grow ==
    \E t \in Times :
        \E r \in {grow(inv, t)} :
            /\ Len(hist) < MaxOps
            /\ inv' = r.obj
            /\ hist' = Append(hist, Call("grow", Zero, t, inv, r))
            /\ UNCHANGED <<pmVars, adj, assetVars, tcVars>>

Call_withdraw ==
    \E amount \in WithdrawAmounts :
        \E r \in {withdraw_accounting_for_taxes(inv, amount, Num(MaxT), DefaultGainsRate)} :
            /\ Len(hist) < MaxOps
            /\ inv' = r.obj
            /\ hist' = Append(hist, Call("withdraw", amount, Num(MaxT), inv, r))
            /\ UNCHANGED <<pmVars, adj, assetVars, tcVars>>

Call_test_sufficient_funds ==
    \E amount \in WithdrawAmounts :
        \E b \in {test_sufficient_funds(inv, amount, DefaultGainsRate)} :
            /\ Len(hist) < MaxOps
            /\ inv' = inv
            /\ hist' = Append(hist, Call("test", amount, Zero, inv,
                                         Result(inv, IF b THEN One ELSE Zero, "none")))
            /\ UNCHANGED <<pmVars, adj, assetVars, tcVars>>

NextInv == Call_add \/ Call_grow \/ Call_withdraw \/ Call_test_sufficient_funds

SpecInv == InitInv /\ [][NextInv]_vars

\* ------------------------------------------------------------------------
\* A run of the simulation: a manager is constructed, optionally seeded at
\* time zero, and simulate_month is called with years_from_start = 0, 1/12,
\* 2/12, ... until a call raises
\* ------------------------------------------------------------------------
MaxMonths == 36

Salaries == {Num(24000), Num(50000), Num(60000), Num(120000), Num(6000000)}

SpendStrats == {SpendStratA, SpendStratB}

SeedAmounts == {Zero, Num(1000)}

GenStrats == {GenStrat, GenStratDraw}

\* what the k-th call did: the manager's per-call fields, and the size of
\* the asset collection and of the asset savings before and after
LogEntry(before, after, k) ==
    [k             |-> k,
     month         |-> after.locals.current_month,
     err           |-> after.err,
     events        |-> after.events,
     income        |-> after.locals.income,
     projection    |-> after.locals.projection,
     n_assets      |-> after.locals.n_assets,
     assets_before |-> Len(before.assets),
     assets_after  |-> Len(after.assets),
     saved_before  |-> before.asset_savings.nstocks,
     saved_after   |-> after.asset_savings.nstocks]

Init ==
    /\ pm \in {PortfolioManager(s, g, sal) :
                  s \in SpendStrats, g \in GenStrats, sal \in Salaries}
    /\ calls = 0
    /\ log = <<>>
    /\ IdleInv
    /\ IdleAdj
    /\ IdleAsset
    /\ IdleTc

Call_init_retirement_savings ==
    \E amount \in SeedAmounts :
        /\ calls = 0
        /\ Len(pm.retirement_investment.df) = 0
        /\ pm' = init_retirement_savings(pm, amount)
        /\ UNCHANGED <<calls, log, invVars, adj, assetVars, tcVars>>

Call_init_giving_savings ==
    \E amount \in SeedAmounts :
        /\ calls = 0
        /\ Len(pm.giving_investment.df) = 0
        /\ pm' = init_giving_savings(pm, amount)
        /\ UNCHANGED <<calls, log, invVars, adj, assetVars, tcVars>>

Call_simulate_month ==
    \E after \in {simulate_month(pm, calls)} :
        /\ calls < MaxMonths
        /\ pm.err = "none"
        /\ pm' = after
        /\ calls' = calls + 1
        /\ log' = Append(log, LogEntry(pm, after, calls))
        /\ UNCHANGED <<invVars, adj, assetVars, tcVars>>

Next == Call_init_retirement_savings \/ Call_init_giving_savings \/ Call_simulate_month

Spec == Init /\ [][Next]_vars

\* ------------------------------------------------------------------------
\* An InflationAdjuster applied forward and back
\* ------------------------------------------------------------------------
MaxAmount == 20

MaxYears == 3

InflationRates == {<<1, 25>>, <<1, 10>>}

InitIA ==
    /\ adj \in [rate : InflationRates, amount : {Num(x) : x \in 1..MaxAmount},
                years : 0..MaxYears, forward : {None}, back : {None}]
    /\ IdleInv
    /\ IdlePm
    /\ IdleAsset
    /\ IdleTc

Call_forward_adjust ==
    /\ IsNone(adj.forward)
    /\ adj' = [adj EXCEPT !.forward = forward_adjust(adj.rate, adj.amount, Num(adj.years))]
    /\ UNCHANGED <<invVars, pmVars, assetVars, tcVars>>

Call_reverse_adjust ==
    /\ ~IsNone(adj.forward)
    /\ IsNone(adj.back)
    /\ adj' = [adj EXCEPT !.back = reverse_adjust(adj.rate, adj.forward, Num(adj.years))]
    /\ UNCHANGED <<invVars, pmVars, assetVars, tcVars>>

NextIA == Call_forward_adjust \/ Call_reverse_adjust

SpecIA == InitIA /\ [][NextIA]_vars

\* ------------------------------------------------------------------------
\* A single Asset: constructed with or without a dividend rate, then grown
\* and asked for its dividend.  Times are whole quarters of a year.
\* ------------------------------------------------------------------------
MaxAssetOps == 3

MaxQuarters == 9

AssetValues == {Num(AssetBasePrice), Num(1000)}

AssetTimes == {Div(Num(q), Num(4)) : q \in 0..MaxQuarters}

AssetStartTimes == {Zero, <<1, 2>>}

AssetDividendRates == {None, AssetDividendRate}

AssetCall(op, t, before, r) ==
    [op |-> op, t |-> t, before |-> before, after |-> r.obj, ret |-> r.ret, err |-> r.err]

InitAsset ==
    /\ \E v \in AssetValues, t \in AssetStartTimes, d \in AssetDividendRates :
          asset = Asset(v, AssetGrowthRate, t, d)
    /\ ahist = <<>>
    /\ IdleInv
    /\ IdlePm
    /\ IdleAdj
    /\ IdleTc

Call_Asset_grow ==
    /\ asset.err = "none"
    /\ Len(ahist) < MaxAssetOps
    /\ \E t \in AssetTimes :
          \E a \in {Asset_grow(asset.obj, t)} :
              /\ asset' = [asset EXCEPT !.obj = a]
              /\ ahist' = Append(ahist, AssetCall("grow", t, asset.obj,
                                                  Result(a, None, "none")))
    /\ UNCHANGED <<invVars, pmVars, adj, tcVars>>

Call_pay_dividend ==
    /\ asset.err = "none"
    /\ Len(ahist) < MaxAssetOps
    /\ \E r \in {pay_dividend(asset.obj)} :
          /\ asset' = asset
          /\ ahist' = Append(ahist, AssetCall("pay_dividend", Zero, asset.obj, r))
    /\ UNCHANGED <<invVars, pmVars, adj, tcVars>>

NextAsset == Call_Asset_grow \/ Call_pay_dividend

SpecAsset == InitAsset /\ [][NextAsset]_vars

\* ------------------------------------------------------------------------
\* A single TaxCalculator: incomes are recorded for a month, the month's rate
\* is looked up, the year is reset.  Months 6 and 12 annualise by 2 and by 1.
\* ------------------------------------------------------------------------
MaxTaxOps == 2

TaxMonths == {6, 12}

\* incomes whose month-12 projection is a bound of a bracket
BoundIncomes ==
    UNION {{Add(tax_brackets[i][1], Num(StandardDeduction)),
            Add(tax_brackets[i][2], Num(StandardDeduction))} : i \in 1..Len(tax_brackets)}

\* 51200 projects to 22000, below the table; 118650.50 projects to 89450.50
TaxIncomes == BoundIncomes \cup {Num(51200), <<237301, 2>>}

TaxCall(op, month, income, projection, rate) ==
    [op |-> op, month |-> month, income |-> income, projection |-> projection,
     rate |-> rate]

InitTax ==
    /\ tc = TaxCalculator
    /\ tlog = <<>>
    /\ IdleInv
    /\ IdlePm
    /\ IdleAdj
    /\ IdleAsset

Call_add_inflation_adjusted_income ==
    \E ia_income \in TaxIncomes, m \in TaxMonths :
        /\ Len(tlog) < MaxTaxOps
        /\ tc' = add_inflation_adjusted_income(tc, ia_income, m)
        /\ tlog' = Append(tlog, TaxCall("add_inflation_adjusted_income", m, ia_income,
                                        None, None))
        /\ UNCHANGED <<invVars, pmVars, adj, assetVars>>

Call_get_tax_rate ==
    \E m \in DOMAIN tc.projected_inflation_adjusted_income :
        /\ Len(tlog) < MaxTaxOps
        /\ tc' = tc
        /\ tlog' = Append(tlog, TaxCall("get_tax_rate", m, None,
                                        tc.projected_inflation_adjusted_income[m],
                                        get_tax_rate(tc, m)))
        /\ UNCHANGED <<invVars, pmVars, adj, assetVars>>

Call_reset_year ==
    /\ Len(tlog) < MaxTaxOps
    /\ tc' = reset_year(tc)
    /\ tlog' = Append(tlog, TaxCall("reset_year", 0, None, None, None))
    /\ UNCHANGED <<invVars, pmVars, adj, assetVars>>

NextTax == Call_add_inflation_adjusted_income \/ Call_get_tax_rate \/ Call_reset_year

SpecTax == InitTax /\ [][NextTax]_vars

\* ------------------------------------------------------------------------
\* Properties of the stand-alone Investment
\* ------------------------------------------------------------------------
\* hist[i] is a grow call that found a grow row with time >= its t
Blocked(i) ==
    LET g == GrowRows(hist[i].before)
    IN  \E j \in 1..Len(g) : Le(hist[i].t, g[j].years_from_start)

\* C1: grow(t) compounds share_price and records a 'grow' row only if no
\* 'grow' row with time >= t exists; otherwise it changes nothing.  Hence the
\* recorded grow times are strictly increasing (at most one per period) and
\* share_price is the growth factor raised to the number of grow rows.
C1_GrowOncePerPeriod ==
    /\ \A i \in 1..Len(hist) :
          hist[i].op = "grow" =>
             LET b == hist[i].before
                 a == hist[i].after
             IN  IF Blocked(i) THEN a = b
                 ELSE /\ a.stock_cost = Mul(b.stock_cost, b.growth_rate)
                      /\ a.df = Append(b.df, Row(a, hist[i].t, "grow"))
    /\ LET g == GrowRows(inv)
       IN  \A j \in 1..Len(g) - 1 : Lt(g[j].years_from_start, g[j + 1].years_from_start)
    /\ inv.stock_cost = Pow(inv.growth_rate, Len(GrowRows(inv)))

\* grow(t), then an add, then grow(t) again: the second grow changed nothing
C1_Witness ==
    \E i, j \in 1..Len(hist) :
        /\ i + 1 < j
        /\ hist[i].op = "grow" /\ hist[j].op = "grow" /\ hist[i].t = hist[j].t
        /\ hist[i].after # hist[i].before
        /\ hist[i + 1].op = "add" /\ hist[i + 1].err = "none"
        /\ hist[j].after = hist[j].before

\* hist[i] and hist[j] are the first two contributions to an empty ledger,
\* both positive, with nothing but grow calls in between
TwoAdds(i, j) ==
    /\ i < j
    /\ hist[i].op = "add" /\ hist[j].op = "add"
    /\ hist[i].err = "none" /\ hist[j].err = "none"
    /\ IsNone(hist[i].before.cost_basis)
    /\ Lt(Zero, hist[i].amount) /\ Lt(Zero, hist[j].amount)
    /\ \A m \in (i + 1)..(j - 1) : hist[m].op = "grow"

\* C5: after two contributions a, b > 0 at prices p1, p2 the cost basis is
\* the share-weighted average (p1*a/p1 + p2*b/p2) / (a/p1 + b/p2), and it is
\* that price when p1 = p2.
C5_WeightedCostBasis ==
    \A i, j \in 1..Len(hist) :
        TwoAdds(i, j) =>
           LET a  == hist[i].amount
               b  == hist[j].amount
               p1 == hist[i].before.stock_cost
               p2 == hist[j].before.stock_cost
               n1 == Div(a, p1)
               n2 == Div(b, p2)
           IN  /\ hist[j].after.cost_basis
                    = Div(Add(Mul(p1, n1), Mul(p2, n2)), Add(n1, n2))
               /\ p1 = p2 => hist[j].after.cost_basis = p1

\* two contributions of different size at different prices
C5_Witness ==
    \E i, j \in 1..Len(hist) :
        /\ TwoAdds(i, j)
        /\ hist[i].amount # hist[j].amount
        /\ hist[i].before.stock_cost # hist[j].before.stock_cost

\* C4 (as claimed): a taxable withdrawal returns the tax withheld,
\* T = gains_rate * shares_sold * (share_price - cost_basis), so that the
\* proceeds less the returned value are exactly the amount asked for.
C4_ReturnsTaxWithheld ==
    \A i \in 1..Len(hist) :
        (hist[i].op = "withdraw" /\ hist[i].err = "none" /\ ~hist[i].before.tax_free) =>
           LET b     == hist[i].before
               sold  == Sub(b.nstocks, hist[i].after.nstocks)
               T     == Mul(DefaultGainsRate, Mul(sold, Sub(b.stock_cost, b.cost_basis)))
           IN  /\ sold = Div(hist[i].amount,
                             Add(Mul(Sub(One, DefaultGainsRate), b.stock_cost),
                                 Mul(DefaultGainsRate, b.cost_basis)))
               /\ hist[i].ret = T
               /\ Sub(Mul(sold, b.stock_cost), hist[i].ret) = hist[i].amount

C15_TaxFreeWithdrawal ==
    \A i \in 1..Len(hist) :
        (hist[i].op = "withdraw" /\ hist[i].before.tax_free
         /\ test_sufficient_funds(hist[i].before, hist[i].amount, DefaultGainsRate)) =>
            /\ hist[i].err = "none"
            /\ hist[i].ret = Zero
            /\ Sub(hist[i].before.nstocks, hist[i].after.nstocks)
                  = Div(hist[i].amount, hist[i].before.stock_cost)

\* an affordable tax-free withdrawal at a price above the cost basis
C15_Witness ==
    \E i \in 1..Len(hist) :
        /\ hist[i].op = "withdraw" /\ hist[i].before.tax_free
        /\ test_sufficient_funds(hist[i].before, hist[i].amount, DefaultGainsRate)
        /\ hist[i].before.stock_cost # hist[i].before.cost_basis

\* C19 (as claimed): add succeeds for every amount >= 0 in every reachable
\* ledger state and leaves cost_basis a number.
C19_AddAlwaysSucceeds ==
    \A i \in 1..Len(hist) :
        (hist[i].op = "add" /\ ~IsNeg(hist[i].amount)) =>
            /\ hist[i].err = "none"
            /\ ~IsNone(hist[i].after.cost_basis)

\* ------------------------------------------------------------------------
\* Properties of a run of the simulation
\* ------------------------------------------------------------------------
\* the places <<i, p>> of the event e in the log: p-th event of the i-th call
EventsAt(e) ==
    UNION {{<<i, p>> : p \in {q \in 1..Len(log[i].events) : log[i].events[q] = e}}
           : i \in 1..Len(log)}

\* the number of events e the i-th call made
EventsIn(e, i) == Cardinality({ip \in EventsAt(e) : ip[1] = i})

Happened(e, i) == \E q \in 1..Len(log[i].events) : log[i].events[q] = e

AbsQ(x) == IF IsNeg(x) THEN Neg(x) ELSE x

\* x = y within a relative rounding tolerance of one in a million
Approx(x, y) == Le(Mul(AbsQ(Sub(x, y)), Num(1000000)), AbsQ(y))

\* C2 (as claimed): after 12*N consecutive simulate_month calls the salary
\* raise and TaxCalculator.reset_year have each been applied exactly N times,
\* once in each 12th step of a year and in no other step.
C2_RaisesAndResets ==
    (pm.err = "none" /\ calls > 0 /\ calls % MonthsPerYear = 0) =>
        /\ Cardinality(EventsAt("get_raise")) = calls \div MonthsPerYear
        /\ Cardinality(EventsAt("reset_year")) = calls \div MonthsPerYear
        /\ \A i \in 1..Len(log) :
              IF log[i].k % MonthsPerYear = MonthsPerYear - 1
              THEN EventsIn("get_raise", i) = 1 /\ EventsIn("reset_year", i) = 1
              ELSE EventsIn("get_raise", i) = 0 /\ EventsIn("reset_year", i) = 0

\* the first i monthly retirement contributions (retirement fraction times
\* that month's net income), each compounded once per grow step of the
\* first year applied since it was added
RECURSIVE CompoundedContributions(_)
CompoundedContributions(i) ==
    IF i = 0 THEN Zero
    ELSE Add(CompoundedContributions(i - 1),
             Mul(Mul(log[i].income, pm.spendstrat.retirement_saving),
                 Pow(pm.retirement_investment.growth_rate, MonthsPerYear + 1 - i)))

\* C3 (as claimed): from a newly constructed manager, seeded or not, the
\* first 12 simulate_month calls of a household whose projected income lies
\* in the bracket table all complete, and afterwards the retirement total is
\* positive and is the sum of the 12 compounded monthly contributions (the
\* sum is compared when no retirement seed was contributed).
C3_TwelveMonthsComplete ==
    (calls <= MonthsPerYear /\ \A i \in 1..Len(log) : log[i].err # "ValueError") =>
        /\ pm.err = "none"
        /\ calls = MonthsPerYear =>
              /\ Lt(Zero, pm.retirement_investment.total)
              /\ IsZero(pm.df[1].retirement_savings) =>
                    Approx(pm.retirement_investment.total,
                           CompoundedContributions(MonthsPerYear))

\* C7 (as claimed): after every completed month-12 step all year-scoped maps
\* are empty: taxes_ytd_ia, income_ytd, and the TaxCalculator's year_to_date
\* and projected_inflation_adjusted_income.
C7_YearMapsCleared ==
    (Len(log) > 0 /\ log[Len(log)].err = "none" /\ log[Len(log)].month = 12) =>
        /\ pm.taxes_ytd_ia = EmptyDict
        /\ pm.income_ytd = EmptyDict
        /\ pm.tax_cal.year_to_date = EmptyDict
        /\ pm.tax_cal.projected_inflation_adjusted_income = EmptyDict

\* C8 (as claimed): in a step that reaches the purchase decision the asset
\* collection grows by exactly the number of units paid for (the whole units
\* the disposable-invest covers, plus one when the asset savings are found
\* sufficient and debited); the asset savings are never debited in a step
\* that ends without that unit added; a step that buys no unit deposits the
\* leftover into asset savings and leaves the collection unchanged.
C8_AssetsMatchUnitsPaid ==
    \A i \in 1..Len(log) :
        Happened("retirement_investment.add", i) =>
            /\ log[i].assets_after = log[i].assets_before + log[i].n_assets
            /\ Happened("asset_savings.withdraw", i) =>
                  log[i].assets_after > log[i].assets_before
            /\ log[i].n_assets = 0 =>
                  /\ Happened("asset_savings.add", i)
                  /\ log[i].assets_after = log[i].assets_before

\* the projected income p lies in no bracket of the table
NoBracket(p) ==
    \A i \in 1..Len(tax_brackets) : ~(Le(tax_brackets[i][1], p) /\ Le(p, tax_brackets[i][2]))

\* none of the steps of a month after the tax-rate lookup has acted
LaterStepsNotPerformed ==
    /\ pm'.retirement_investment = pm.retirement_investment
    /\ pm'.giving_investment = pm.giving_investment
    /\ pm'.asset_savings = pm.asset_savings
    /\ pm'.giving_tracker = pm.giving_tracker
    /\ pm'.assets = pm.assets
    /\ pm'.salary = pm.salary
    /\ pm'.taxes_ytd_ia = pm.taxes_ytd_ia
    /\ pm'.income_ytd = pm.income_ytd
    /\ pm'.df = pm.df
    /\ pm'.events = <<"add_inflation_adjusted_income">>

\* C9: whenever the month's projected income lies in no bracket (in
\* particular whenever it is below 22,001, negative projections included)
\* get_tax_rate raises the invalid-income error and yields no rate, the
\* error ends simulate_month, and no later step of that month (allocation,
\* giving, retirement contribution, growth, year close-out) is performed.
C9_BracketMissIsFatal ==
    [][(calls' = calls + 1
        /\ (NoBracket(pm'.locals.projection)
            \/ Lt(pm'.locals.projection, tax_brackets[1][1])))
          => (/\ pm'.err = "ValueError"
              /\ IsNone(pm'.locals.income)
              /\ LaterStepsNotPerformed)]_vars

\* a call has failed on a negative projected income
C9_Witness ==
    /\ calls > 0
    /\ pm.err = "ValueError"
    /\ IsNeg(pm.locals.projection)

\* the calls of year y (calls 12y+1 .. 12y+12) have all completed
YearCompleted(y) ==
    /\ Len(log) >= MonthsPerYear * (y + 1)
    /\ \A i \in (MonthsPerYear * y + 1)..(MonthsPerYear * (y + 1)) : log[i].err = "none"

YearOf(i) == log[i].k \div MonthsPerYear

\* C10 (as claimed): in every simulated year reset_year runs exactly once,
\* and only after the year-end tax return has been computed in that step;
\* get_tax_return is never evaluated after a reset_year of the same year.
C10_ResetOncePerYearAfterReturn ==
    /\ \A y \in 0..(calls \div MonthsPerYear) :
          YearCompleted(y) =>
             Cardinality({ip \in EventsAt("reset_year") : YearOf(ip[1]) = y}) = 1
    /\ \A ip \in EventsAt("reset_year") :
          \E q \in 1..(ip[2] - 1) : log[ip[1]].events[q] = "get_tax_return"
    /\ \A ip \in EventsAt("get_tax_return") :
          \A jq \in EventsAt("reset_year") :
             YearOf(jq[1]) = YearOf(ip[1]) =>
                (jq[1] > ip[1] \/ (jq[1] = ip[1] /\ jq[2] > ip[2]))

\* ------------------------------------------------------------------------
\* Property of the InflationAdjuster
\* ------------------------------------------------------------------------
\* C6 (as claimed): reverse_adjust(forward_adjust(x, y), y) equals x (up to
\* rounding) for every amount x > 0 and every number of years y >= 0.
C6_RoundTrip == ~IsNone(adj.back) => Approx(adj.back, adj.amount)

\* C12: in every state reached by simulate_month calls, with or without seed
\* contributions, the share count of the retirement, the giving and the
\* asset-savings ledger is >= 0.
C12_ShareCountsNonNegative ==
    /\ ~IsNeg(pm.retirement_investment.nstocks)
    /\ ~IsNeg(pm.giving_investment.nstocks)
    /\ ~IsNeg(pm.asset_savings.nstocks)

\* the giving fund was drawn down and the asset savings were debited for a
\* unit in the last call
C12_Witness ==
    /\ Len(log) > 0
    /\ Happened("giving_investment.withdraw", Len(log))
    /\ Happened("asset_savings.withdraw", Len(log))
    /\ Lt(pm.asset_savings.nstocks, log[Len(log)].saved_before)
    /\ Lt(Zero, pm.giving_tracker.total)

\* the last row of the ledger's df
LastRow(ledger) == ledger.df[Len(ledger.df)]

\* the call leading to the next state made the event e
Did(e) == \E q \in 1..Len(pm'.events) : pm'.events[q] = e

\* the income _get_paid records for the month of the next call
IaIncome ==
    Round2(reverse_adjust(pm.ia,
                          Add(Round2(Salary_get_paid(pm.salary)),
                              SumDividends(pm.assets, Len(pm.assets))),
                          Num(calls \div MonthsPerYear)))

\* after a bracket miss the TaxCalculator holds the month's income and its
\* projection, and nothing else has changed
KeptAfterBracketMiss ==
    /\ pm'.locals.current_month \in DOMAIN pm'.tax_cal.year_to_date
    /\ pm'.tax_cal.year_to_date[pm'.locals.current_month] = IaIncome
    /\ pm'.locals.current_month \in DOMAIN pm'.tax_cal.projected_inflation_adjusted_income
    /\ pm'.tax_cal.projected_inflation_adjusted_income[pm'.locals.current_month]
          = pm'.locals.projection
    /\ pm'.retirement_investment = pm.retirement_investment
    /\ pm'.giving_investment = pm.giving_investment
    /\ pm'.asset_savings = pm.asset_savings
    /\ pm'.giving_tracker = pm.giving_tracker

\* after a failed purchase the giving withdrawal and contribution, the two
\* tracker entries, the retirement contribution and the debit of the asset
\* savings (if made) are in place; growth and close-out have not run
KeptAfterFailedPurchase ==
    /\ Len(pm'.giving_investment.df) = Len(pm.giving_investment.df) + 2
    /\ pm'.giving_investment.df[Len(pm.giving_investment.df) + 1].change_type = "withdraw"
    /\ LastRow(pm'.giving_investment).change_type = "add"
    /\ LastRow(pm'.giving_investment).years_from_start = Years(calls)
    /\ Len(pm'.giving_tracker.df) = Len(pm.giving_tracker.df) + 2
    /\ Len(pm'.retirement_investment.df) = Len(pm.retirement_investment.df) + 1
    /\ LastRow(pm'.retirement_investment).change_type = "add"
    /\ Lt(pm.retirement_investment.nstocks, pm'.retirement_investment.nstocks)
    /\ IF Did("asset_savings.withdraw")
       THEN /\ Len(pm'.asset_savings.df) = Len(pm.asset_savings.df) + 1
            /\ LastRow(pm'.asset_savings).change_type = "withdraw"
            /\ Lt(pm'.asset_savings.nstocks, pm.asset_savings.nstocks)
       ELSE pm'.asset_savings = pm.asset_savings
    /\ pm'.assets = pm.assets
    /\ pm'.retirement_investment.stock_cost = pm.retirement_investment.stock_cost
    /\ pm'.giving_investment.stock_cost = pm.giving_investment.stock_cost
    /\ pm'.asset_savings.stock_cost = pm.asset_savings.stock_cost
    /\ ~Did("grow") /\ ~Did("reset_year") /\ ~Did("get_raise")
    /\ pm'.salary = pm.salary
    /\ pm'.df = pm.df
    /\ pm'.locals.current_month \in DOMAIN pm'.tax_cal.year_to_date

\* C17: simulate_month has no rollback.  After a bracket miss the
\* TaxCalculator's year-to-date and projection maps hold the failed month's
\* income while the ledgers are unchanged; after a failure in the asset
\* purchase the month's giving withdrawal and contribution, tracker entries,
\* retirement contribution and any asset-savings debit stay applied, and
\* growth and year close-out have not run.
C17_NoRollback ==
    [][(calls' = calls + 1) =>
          /\ (pm'.err = "ValueError" /\ ~Did("allocate")) => KeptAfterBracketMiss
          /\ (pm'.err # "none" /\ pm'.locals.n_assets > 0) => KeptAfterFailedPurchase]_vars

\* a month has failed in the purchase of a unit after the asset savings were
\* debited for it
C17_Witness ==
    /\ calls > 0
    /\ pm.err = "TypeError"
    /\ pm.locals.n_assets > 0
    /\ Happened("asset_savings.withdraw", Len(log))
    /\ Lt(log[Len(log)].saved_after, log[Len(log)].saved_before)

\* C18: the giving tracker's running total never decreases: every amount
\* logged to it, the direct give and the draw-down withdrawal of each month,
\* the 12th with its tax return included, is >= 0.
C18_GivingNeverDecreases ==
    /\ \A j \in 1..Len(pm.giving_tracker.df) : ~IsNeg(pm.giving_tracker.df[j].spending)
    /\ \A j \in 1..Len(pm.giving_tracker.df) - 1 :
          Le(pm.giving_tracker.df[j].total, pm.giving_tracker.df[j + 1].total)
    /\ ~IsNeg(pm.giving_tracker.total)

\* a 12th month, its tax return added to the income, has logged its giving
C18_Witness ==
    /\ Len(log) > 0
    /\ log[Len(log)].month = 12
    /\ Happened("get_tax_return", Len(log))
    /\ Happened("giving_tracker.add", Len(log))
    /\ Len(pm.giving_tracker.df) = 2 * Len(log)
    /\ Lt(Zero, LastRow(pm.giving_tracker).spending)

\* ------------------------------------------------------------------------
\* Properties of the stand-alone Asset
\* ------------------------------------------------------------------------
\* C11: Asset.grow(t) leaves the asset unchanged when t is less than one full
\* year after the last recorded growth (or creation) time; once t is at least
\* that time plus 1 the value is multiplied by 1 + growth_rate (to cents)
\* exactly once and t is recorded, so a repeated call with the same t does
\* not compound again and recorded times are at least a year apart.
C11_AssetGrowsOncePerYear ==
    asset.err = "none" =>
        /\ \A i \in 1..Len(ahist) :
              ahist[i].op = "grow" =>
                 LET b == ahist[i].before
                     a == ahist[i].after
                 IN  IF Lt(ahist[i].t, Add(most_recent_growth(b), One))
                     THEN a = b
                     ELSE /\ a.value = Round2(Mul(b.value, Add(One, b.growth_rate)))
                          /\ a.df = Append(b.df, [value |-> a.value,
                                                   years_from_start |-> ahist[i].t])
        /\ \A i \in 1..Len(ahist) - 1 :
              (ahist[i].op = "grow" /\ ahist[i + 1].op = "grow"
               /\ ahist[i].t = ahist[i + 1].t)
                 => ahist[i + 1].after = ahist[i + 1].before
        /\ \A j \in 1..Len(asset.obj.df) - 1 :
              /\ Le(Add(asset.obj.df[j].years_from_start, One),
                     asset.obj.df[j + 1].years_from_start)
              /\ asset.obj.df[j + 1].value
                    = Round2(Mul(asset.obj.df[j].value, Add(One, asset.obj.growth_rate)))

\* a call within the year changed nothing, a call a full year on compounded,
\* and the same call repeated changed nothing
C11_Witness ==
    /\ asset.err = "none"
    /\ Len(ahist) = 3
    /\ ahist[1].op = "grow" /\ ahist[1].after = ahist[1].before
    /\ Lt(most_recent_growth(ahist[1].before), ahist[1].t)
    /\ ahist[2].op = "grow" /\ ahist[2].after # ahist[2].before
    /\ ahist[3].op = "grow" /\ ahist[3].t = ahist[2].t
    /\ ahist[3].after = ahist[3].before

\* C14 (as claimed): an Asset configured without a dividend rate exists and
\* its pay_dividend fails with the missing-rate ValueError; with a dividend
\* rate pay_dividend returns profit_dividend_rate * value rounded to cents.
C14_MissingRateError ==
    /\ asset.err = "none"
    /\ \A i \in 1..Len(ahist) :
          ahist[i].op = "pay_dividend" =>
             IF IsNone(ahist[i].before.dividend_rate)
             THEN ahist[i].err = "ValueError"
             ELSE /\ ahist[i].err = "none"
                  /\ ahist[i].ret = Round2(Mul(ahist[i].before.profit_dividend_rate,
                                               ahist[i].before.value))

\* ------------------------------------------------------------------------
\* Properties of the stand-alone TaxCalculator
\* ------------------------------------------------------------------------
\* the brackets whose bounds, both inclusive, hold the projected income p
BracketsHolding(p) ==
    {i \in 1..Len(tax_brackets) : Le(tax_brackets[i][1], p) /\ Le(p, tax_brackets[i][2])}

\* C16: get_tax_rate treats bracket bounds as inclusive and matches at most
\* one bracket: a projection equal to the lower or the upper bound of a
\* bracket returns that bracket's rate; exactly 89,450 returns 0.12 and
\* exactly 89,451 returns 0.22.
C16_InclusiveBounds ==
    \A c \in 1..Len(tlog) :
        tlog[c].op = "get_tax_rate" =>
            /\ Cardinality(BracketsHolding(tlog[c].projection)) <= 1
            /\ \A i \in 1..Len(tax_brackets) :
                  (tlog[c].projection = tax_brackets[i][1]
                   \/ tlog[c].projection = tax_brackets[i][2])
                     => tlog[c].rate = tax_brackets[i][3]
            /\ tlog[c].projection = Num(89450) => tlog[c].rate = <<3, 25>>
            /\ tlog[c].projection = Num(89451) => tlog[c].rate = <<11, 50>>

\* the rate of a projection of exactly 89,450 has been looked up
C16_Witness ==
    \E c \in 1..Len(tlog) :
        /\ tlog[c].op = "get_tax_rate"
        /\ tlog[c].projection = Num(89450)
        /\ tlog[c].rate = <<3, 25>>

\* C20 (as claimed): for every projected income from the lowest bracket's
\* lower bound to the highest bracket's upper bound, whole or not,
\* get_tax_rate returns a rate.
C20_NoGapsInRange ==
    \A c \in 1..Len(tlog) :
        (/\ tlog[c].op = "get_tax_rate"
         /\ Le(tax_brackets[1][1], tlog[c].projection)
         /\ Le(tlog[c].projection, tax_brackets[Len(tax_brackets)][2]))
            => ~IsNone(tlog[c].rate)

====
